---- MODULE Spec2Model ----
(***************************************************************************)
(* Model of legendre_polynomials_normalized.py: composite Simpson          *)
(* quadrature on sampled values, Gram-Schmidt construction of a sampled    *)
(* orthonormal polynomial basis, and projection onto that basis.           *)
(*                                                                         *)
(* Arithmetic is exact.  Every number the program computes from integer    *)
(* interval bounds is a rational multiple of the square root of a          *)
(* square-free positive integer, so a number is a record                   *)
(*     [t |-> "fin", n |-> num, d |-> den, s |-> radicand]                 *)
(* standing for (n/d)*sqrt(s), kept in lowest terms.  The non-finite       *)
(* floating-point values a division by zero or a square root of a negative *)
(* number produce are the records with t = "nan" and t = "inf".            *)
(* Floating-point rounding is not modelled.                                *)
(***************************************************************************)
EXTENDS Integers, Sequences, FiniteSets, TLC

(* ------------------------------ bounds -------------------------------- *)
MaxAbs == 2        \* interval bounds a, b are integers in -MaxAbs..MaxAbs
MaxN == 4          \* sample counts N range over 1..MaxN
MaxCount == 3      \* number_functions ranges over 1..MaxCount
MaxDeg == 2        \* sampled callables are the monomials x^0..x^MaxDeg
MaxCalls == 2      \* direct quadrature calls made on one caller-owned array

(* ----------------------------- arithmetic ----------------------------- *)
Abs(x) == IF x < 0 THEN -x ELSE x

Sign(x) == IF x < 0 THEN -1 ELSE IF x = 0 THEN 0 ELSE 1

RECURSIVE GCD(_, _)
GCD(x, y) == IF y = 0 THEN x ELSE GCD(y, x % y)

NaN == [t |-> "nan", n |-> 0, d |-> 1, s |-> 1]

Inf(sgn) == [t |-> "inf", n |-> sgn, d |-> 1, s |-> 1]

\* (n/d)*sqrt(s) in lowest terms, d > 0; zero is 0/1*sqrt(1)
Fin(n, d, s) ==
    IF n = 0 THEN [t |-> "fin", n |-> 0, d |-> 1, s |-> 1]
    ELSE LET g == GCD(Abs(n), Abs(d))
         IN  [t |-> "fin", n |-> Sign(d) * (n \div g), d |-> Abs(d) \div g, s |-> s]

Rat(n, d) == Fin(n, d, 1)

Zero == Rat(0, 1)

One == Rat(1, 1)

IsZero(x) == x.t = "fin" /\ x.n = 0

IsFinite(x) == x.t = "fin"

Neg(x) == [x EXCEPT !.n = -x.n]

\* product of two finite numbers, cancelling before multiplying
FinMul(x, y) ==
    LET g   == GCD(x.s, y.s)
        g1  == GCD(Abs(x.n), y.d)
        g2  == GCD(Abs(y.n), x.d)
        xn  == x.n \div g1
        yn  == y.n \div g2
        xd  == x.d \div g2
        yd  == y.d \div g1
        g3  == GCD(g, xd)
        g4  == GCD(g \div g3, yd)
    IN  Fin(xn * yn * ((g \div g3) \div g4),
            (xd \div g3) * (yd \div g4),
            (x.s \div g) * (y.s \div g))

Mul(x, y) ==
    CASE x.t = "nan" \/ y.t = "nan" -> NaN
      [] x.t = "inf" \/ y.t = "inf" ->
            IF Sign(x.n) * Sign(y.n) = 0 THEN NaN ELSE Inf(Sign(x.n) * Sign(y.n))
      [] OTHER -> IF IsZero(x) \/ IsZero(y) THEN Zero ELSE FinMul(x, y)

\* sum of two finite numbers with the same radicand
FinAdd(x, y) ==
    LET g == GCD(x.d, y.d)
        l == (x.d \div g) * y.d
    IN  Fin(x.n * (l \div x.d) + y.n * (l \div y.d), l, x.s)

Add(x, y) ==
    CASE x.t = "nan" \/ y.t = "nan" -> NaN
      [] x.t = "inf" /\ y.t = "inf" -> IF x.n = y.n THEN x ELSE NaN
      [] x.t = "inf" -> x
      [] y.t = "inf" -> y
      [] IsZero(x) -> y
      [] IsZero(y) -> x
      [] x.s = y.s -> FinAdd(x, y)

Sub(x, y) == Add(x, Neg(y))

\* the largest k with k*k dividing m, found by trial division from p upward
RECURSIVE SquarePart(_, _)
SquarePart(m, p) ==
    IF p * p > m THEN 1
    ELSE IF m % (p * p) = 0 THEN p * SquarePart(m \div (p * p), p)
    ELSE IF m % p = 0 THEN SquarePart(m \div p, p + 1)
    ELSE SquarePart(m, p + 1)

\* sqrt(n/d) = kn*sqrt(sn*sd) / (kd*sd)  where n = kn^2*sn and d = kd^2*sd
Sqrt(x) ==
    CASE x.t = "nan" -> NaN
      [] x.t = "inf" -> IF x.n > 0 THEN x ELSE NaN
      [] x.n < 0 -> NaN
      [] x.n = 0 -> Zero
      [] x.s = 1 ->
            LET kn == SquarePart(x.n, 2)
                kd == SquarePart(x.d, 2)
                sn == x.n \div (kn * kn)
                sd == x.d \div (kd * kd)
            IN  Fin(kn, kd * sd, sn * sd)

\* 1/((n/d)*sqrt(s)) = (d/(n*s))*sqrt(s)
Div(x, y) ==
    CASE x.t = "nan" \/ y.t = "nan" -> NaN
      [] y.t = "inf" -> IF x.t = "inf" THEN NaN ELSE Zero
      [] x.t = "inf" -> IF y.n < 0 THEN Inf(-x.n) ELSE x
      [] IsZero(y) -> IF IsZero(x) THEN NaN ELSE Inf(Sign(x.n))
      [] OTHER -> Mul(x, Fin(y.d, y.n * y.s, y.s))

RECURSIVE Power(_, _)
Power(x, e) == IF e = 0 THEN One ELSE Mul(x, Power(x, e - 1))

(* ------------------------------ vectors ------------------------------- *)
VecMul(u, v) == [i \in 1..Len(u) |-> Mul(u[i], v[i])]

VecAdd(u, v) == [i \in 1..Len(u) |-> Add(u[i], v[i])]

VecSub(u, v) == [i \in 1..Len(u) |-> Sub(u[i], v[i])]

VecScale(c, v) == [i \in 1..Len(v) |-> Mul(c, v[i])]

VecDiv(v, c) == [i \in 1..Len(v) |-> Div(v[i], c)]

VecPower(v, e) == [i \in 1..Len(v) |-> Power(v[i], e)]

\* np.zeros_like / np.ones_like
zeros_like(v) == [i \in 1..Len(v) |-> Zero]

ones_like(v) == [i \in 1..Len(v) |-> One]

\* np.linspace(a, b, N): N evenly spaced points, both endpoints included
linspace(lo, hi, cnt) ==
    [i \in 1..cnt |->
        IF cnt = 1 THEN Rat(lo, 1)
        ELSE Add(Rat(lo, 1), Rat((i - 1) * (hi - lo), cnt - 1))]

\* np.sum over the elements from position i on
RECURSIVE SumFrom(_, _)
SumFrom(v, i) == IF i > Len(v) THEN Zero ELSE Add(v[i], SumFrom(v, i + 1))

Sum(v) == SumFrom(v, 1)

(* ---------------------- integration_simpson_sampled ------------------- *)
\* the factor the slices fx[1:-1:2] *= 4 and fx[2:-1:2] *= 2 apply to the
\* element at 0-based index j of an array of length len
SliceFactor(j, len) ==
    IF j >= 1 /\ j < len - 1
    THEN (IF j % 2 = 1 THEN 4 ELSE 2)
    ELSE 1

\* the array fx as the two in-place slice assignments leave it
SimpsonScaled(fx) ==
    [i \in 1..Len(fx) |-> Mul(Rat(SliceFactor(i - 1, Len(fx)), 1), fx[i])]

\* h = (b - a) / N
StepSize(lo, hi, cnt) == Rat(hi - lo, cnt)

\* the value returned: (h / 3) * np.sum(fx), fx already scaled
integration_simpson_sampled(lo, hi, fx, cnt) ==
    Mul(Div(StepSize(lo, hi, cnt), Rat(3, 1)), Sum(SimpsonScaled(fx)))

(* ------------------------------- state -------------------------------- *)
VARIABLES
    a, b, N, number_functions,  \* the arguments the driver passes
    pc,                         \* position of the driver
    samples, deg, result, calls,\* a caller-owned array handed to the quadrature
    xx, BASE, n, k, wn, p_sum, norm,   \* legendre_polynomial_normalized
    f, fx, projection,          \* get_projection
    arg, ret,                   \* array last handed to the quadrature, its value
    coefs, returned             \* history: coefficients used, matrix as returned

vars == <<a, b, N, number_functions, pc, samples, deg, result, calls,
          xx, BASE, n, k, wn, p_sum, norm, f, fx, projection, arg, ret,
          coefs, returned>>

callerVars == <<samples, deg, result, calls>>

legVars == <<n, wn, p_sum, norm>>

projVars == <<f, fx, projection, coefs>>

inputs == <<a, b, N, number_functions>>

None == [t |-> "none", n |-> 0, d |-> 1, s |-> 1]

NoFunction == [kind |-> "none", arg |-> 0]

\* the callables projected: a monomial x^arg, or a callable whose values on
\* the grid are row arg of the basis
Monomial(e) == [kind |-> "monomial", arg |-> e]

BasisRow(i) == [kind |-> "row", arg |-> i]

\* f(xx)
Apply(g, grid, basis) ==
    IF g.kind = "row" THEN basis[g.arg + 1] ELSE VecPower(grid, g.arg)

Init ==
    /\ a \in -MaxAbs..MaxAbs
    /\ b \in -MaxAbs..MaxAbs
    /\ a < b
    /\ N \in 1..MaxN
    /\ number_functions \in 1..MaxCount
    /\ pc = "idle"
    /\ samples = <<>> /\ deg = 0 /\ result = None /\ calls = 0
    /\ xx = <<>> /\ BASE = <<>> /\ n = 0 /\ k = 0
    /\ wn = <<>> /\ p_sum = <<>> /\ norm = None
    /\ f = NoFunction /\ fx = <<>> /\ projection = <<>>
    /\ arg = <<>> /\ ret = None
    /\ coefs = <<>> /\ returned = <<>>

(* ----------------- a caller of the quadrature on its own array -------- *)
\* the caller samples x^e on the grid of N points over [a, b]
Sample(e) ==
    /\ pc = "idle"
    /\ samples' = VecPower(linspace(a, b, N), e)
    /\ deg' = e
    /\ pc' = "sampled"
    /\ UNCHANGED <<inputs, result, calls, xx, BASE, k, legVars, projVars,
                   arg, ret, returned>>

\* integration_simpson_sampled(a, b, samples, N): the array is scaled in place
Integrate ==
    /\ pc = "sampled"
    /\ calls < MaxCalls
    /\ result' = integration_simpson_sampled(a, b, samples, N)
    /\ samples' = SimpsonScaled(samples)
    /\ calls' = calls + 1
    /\ UNCHANGED <<inputs, pc, deg, xx, BASE, k, legVars, projVars,
                   arg, ret, returned>>

(* -------------------- legendre_polynomial_normalized ------------------ *)
\* variant of Normalized: divides by the squared norm itself
NormalizedNoSqrt(v, nrm) == VecDiv(v, nrm)

\* v / np.sqrt(nrm)
Normalized(v, nrm) == VecDiv(v, Sqrt(nrm))

\* xx = np.linspace(a, b, N); BASE[n, :] = np.power(xx, n) for every n
LegStart ==
    /\ pc = "idle"
    /\ xx' = linspace(a, b, N)
    /\ BASE' = [r \in 1..number_functions |-> VecPower(xx', r - 1)]
    /\ pc' = "leg_first"
    /\ UNCHANGED <<inputs, callerVars, k, legVars, projVars, arg, ret, returned>>

\* norm_first_poly, e1, BASE[0, :] = e1
LegFirst ==
    /\ pc = "leg_first"
    /\ arg' = SimpsonScaled(ones_like(xx))
    /\ ret' = integration_simpson_sampled(a, b, ones_like(xx), N)
    /\ BASE' = [BASE EXCEPT ![1] = Normalized(ones_like(xx), ret')]
    /\ n' = 1
    /\ pc' = IF 1 < number_functions THEN "leg_wn" ELSE "leg_return"
    /\ UNCHANGED <<inputs, callerVars, xx, k, wn, p_sum, norm, projVars, returned>>

\* wn = np.power(xx, n); p_sum = np.zeros_like(wn)
LegWn ==
    /\ pc = "leg_wn"
    /\ wn' = VecPower(xx, n)
    /\ p_sum' = zeros_like(wn')
    /\ k' = 0
    /\ pc' = "leg_k"
    /\ UNCHANGED <<inputs, callerVars, xx, BASE, n, norm, projVars, arg, ret, returned>>

\* variant of LegProject: p_sum is overwritten by the last term
LegProjectOverwrite ==
    /\ pc = "leg_k"
    /\ LET ek == BASE[k + 1]
       IN  /\ arg' = SimpsonScaled(VecMul(wn, ek))
           /\ ret' = integration_simpson_sampled(a, b, VecMul(wn, ek), N)
           /\ p_sum' = VecScale(ret', ek)
    /\ k' = k + 1
    /\ pc' = IF k + 1 < n THEN "leg_k" ELSE "leg_norm"
    /\ UNCHANGED <<inputs, callerVars, xx, BASE, n, wn, norm, projVars, returned>>

\* ek = BASE[k, :]; p_sum += integration_simpson_sampled(a, b, wn * ek, N) * ek
LegProject ==
    /\ pc = "leg_k"
    /\ LET ek == BASE[k + 1]
       IN  /\ arg' = SimpsonScaled(VecMul(wn, ek))
           /\ ret' = integration_simpson_sampled(a, b, VecMul(wn, ek), N)
           /\ p_sum' = VecAdd(p_sum, VecScale(ret', ek))
    /\ k' = k + 1
    /\ pc' = IF k + 1 < n THEN "leg_k" ELSE "leg_norm"
    /\ UNCHANGED <<inputs, callerVars, xx, BASE, n, wn, norm, projVars, returned>>

\* wn -= p_sum; norm = ...(np.power(wn, 2)); BASE[n, :] = wn / np.sqrt(norm)
LegNormalize ==
    /\ pc = "leg_norm"
    /\ wn' = VecSub(wn, p_sum)
    /\ arg' = SimpsonScaled(VecPower(wn', 2))
    /\ norm' = integration_simpson_sampled(a, b, VecPower(wn', 2), N)
    /\ ret' = norm'
    /\ BASE' = [BASE EXCEPT ![n + 1] = Normalized(wn', norm')]
    /\ n' = n + 1
    /\ pc' = IF n + 1 < number_functions THEN "leg_wn" ELSE "leg_return"
    /\ UNCHANGED <<inputs, callerVars, xx, k, p_sum, projVars, returned>>

\* return BASE
LegReturn ==
    /\ pc = "leg_return"
    /\ returned' = BASE
    /\ pc' = "ready"
    /\ UNCHANGED <<inputs, callerVars, xx, BASE, k, legVars, projVars, arg, ret>>

(* ---------------------------- get_projection -------------------------- *)
\* N = BASE.shape[1]; xx = np.linspace(a, b, N); fx = f(xx);
\* projection = np.zeros_like(xx)
ProjStart(g) ==
    /\ pc = "ready"
    /\ f' = g
    /\ xx' = linspace(a, b, Len(BASE[1]))
    /\ fx' = Apply(g, xx', BASE)
    /\ projection' = zeros_like(xx')
    /\ coefs' = <<>>
    /\ k' = 0
    /\ pc' = "proj_k"
    /\ UNCHANGED <<inputs, callerVars, BASE, legVars, arg, ret, returned>>

\* variant of ProjStep: the product is built in the row view (ek *= fx), so
\* the quadrature scales the row of BASE itself
ProjStepInPlace ==
    /\ pc = "proj_k"
    /\ LET prod == VecMul(fx, BASE[k + 1])
       IN  /\ arg' = SimpsonScaled(prod)
           /\ ret' = integration_simpson_sampled(a, b, prod, Len(BASE[1]))
           /\ BASE' = [BASE EXCEPT ![k + 1] = arg']
           /\ projection' = VecAdd(projection, VecScale(ret', arg'))
    /\ coefs' = Append(coefs, ret')
    /\ k' = k + 1
    /\ pc' = IF k + 1 < Len(BASE) THEN "proj_k" ELSE "proj_return"
    /\ UNCHANGED <<inputs, callerVars, xx, legVars, f, fx, returned>>

\* variant of ProjStep: the product is built in fx (fx *= ek), so the samples
\* the next coefficient is computed from are no longer those of f
ProjStepScalesFx ==
    /\ pc = "proj_k"
    /\ LET ek == BASE[k + 1]
       IN  /\ arg' = SimpsonScaled(VecMul(fx, ek))
           /\ ret' = integration_simpson_sampled(a, b, VecMul(fx, ek), Len(BASE[1]))
           /\ fx' = arg'
           /\ projection' = VecAdd(projection, VecScale(ret', ek))
    /\ coefs' = Append(coefs, ret')
    /\ k' = k + 1
    /\ pc' = IF k + 1 < Len(BASE) THEN "proj_k" ELSE "proj_return"
    /\ UNCHANGED <<inputs, callerVars, xx, BASE, legVars, f, returned>>

\* ek = BASE[k, :]
\* projection += integration_simpson_sampled(a, b, fx * ek, N) * ek
ProjStep ==
    /\ pc = "proj_k"
    /\ LET ek == BASE[k + 1]
       IN  /\ arg' = SimpsonScaled(VecMul(fx, ek))
           /\ ret' = integration_simpson_sampled(a, b, VecMul(fx, ek), Len(BASE[1]))
           /\ projection' = VecAdd(projection, VecScale(ret', ek))
    /\ coefs' = Append(coefs, ret')
    /\ k' = k + 1
    /\ pc' = IF k + 1 < Len(BASE) THEN "proj_k" ELSE "proj_return"
    /\ UNCHANGED <<inputs, callerVars, xx, BASE, legVars, f, fx, returned>>

\* return projection
ProjReturn ==
    /\ pc = "proj_return"
    /\ pc' = "ready"
    /\ UNCHANGED <<inputs, callerVars, xx, BASE, k, legVars, projVars, arg, ret,
                   returned>>

Functions ==
    {Monomial(e) : e \in 0..MaxDeg} \cup {BasisRow(i) : i \in 0..(number_functions - 1)}

Next ==
    \/ \E e \in 0..MaxDeg : Sample(e)
    \/ Integrate
    \/ LegStart
    \/ LegFirst
    \/ LegWn
    \/ LegProject
    \/ LegNormalize
    \/ LegReturn
    \/ \E g \in Functions : ProjStart(g)
    \/ ProjStep
    \/ ProjReturn

Spec == Init /\ [][Next]_vars

(* ============================ properties ============================= *)
\* the matrix has been returned to the driver
Returned == pc \in {"ready", "proj_k", "proj_return"}

\* the basis builder is running
Building == pc \in {"leg_first", "leg_wn", "leg_k", "leg_norm", "leg_return"}

\* an odd number of samples, at least three
OddGrid == N >= 3 /\ N % 2 = 1

\* the inner product the quadrature defines on two sampled functions
InnerProduct(u, v) == integration_simpson_sampled(a, b, VecMul(u, v), N)

\* c[1]*rows[1] + ... + c[m]*rows[m], starting from the zero vector
RECURSIVE LinearCombination(_, _, _)
LinearCombination(c, rows, m) ==
    IF m = 0 THEN zeros_like(rows[1])
    ELSE VecAdd(LinearCombination(c, rows, m - 1), VecScale(c[m], rows[m]))

RECURSIVE IntPow(_, _)
IntPow(x, e) == IF e = 0 THEN 1 ELSE x * IntPow(x, e - 1)

\* C1: for a < b, odd N >= 3 and 1 <= count <= N the returned matrix is
\* orthonormal under the quadrature's own inner product: distinct rows have
\* inner product zero, every row has inner product one with itself.
C1_Orthonormal ==
    (Returned /\ OddGrid /\ number_functions <= N) =>
        \A i, j \in 1..Len(BASE) :
            InnerProduct(BASE[i], BASE[j]) = IF i = j THEN One ELSE Zero

C1_Witness ==
    /\ pc = "ready" /\ OddGrid /\ number_functions = N
    /\ InnerProduct(BASE[1], BASE[N]) = Zero
    /\ InnerProduct(BASE[N], BASE[N]) = One

\* C2: for a polynomial of degree <= 3 sampled on an odd grid of N >= 3
\* points, the quadrature returns the true definite integral over [a, b].
C2_SimpsonExact ==
    (calls = 1 /\ OddGrid) =>
        result = Rat(IntPow(b, deg + 1) - IntPow(a, deg + 1), deg + 1)

\* C3: a quadrature call leaves the caller's array as it was, and a second
\* call on the same array returns the same value as the first.
C3_InputNotMutated ==
    [][calls' = calls + 1 =>
          /\ samples' = samples
          /\ (calls >= 1 => result' = result)]_vars

\* C4: for N < 3 or even N the quadrature reports an invalid argument and
\* returns no numeric result.
C4_InvalidSampleCountReported ==
    (calls > 0 /\ ~OddGrid) => result = None

\* C5: when the squared norm computed for degree n is zero or negative the
\* basis builder aborts with a degenerate-basis failure and writes no row
\* divided by the square root of that norm.
C5_DegenerateBasisReported ==
    [][(pc = "leg_norm" /\ ~(norm'.t = "fin" /\ norm'.n > 0)) =>
          (pc' = "failed" /\ BASE' = BASE)]_vars

\* C6: projecting a callable whose grid values are row i of a returned basis
\* onto that basis returns row i.
C6_ProjectionIdempotent ==
    (pc = "proj_return" /\ f.kind = "row") => projection = BASE[f.arg + 1]

\* C6 on the bases C1 covers: with count <= N no degenerate row exists and the
\* projection of row i is row i
C6_IdempotentOnIndependentRows ==
    (pc = "proj_return" /\ f.kind = "row" /\ number_functions <= N) =>
        projection = BASE[f.arg + 1]

\* C7: get_projection only borrows the basis: whatever projections have been
\* computed, every entry of BASE is as legendre_polynomial_normalized
\* returned it.
C7_BasisBorrowed == Returned => BASE = returned

C7_Witness ==
    /\ pc = "proj_return" /\ number_functions >= 2 /\ N >= 3
    /\ arg # VecMul(fx, BASE[Len(BASE)])
    /\ BASE = returned

\* C8: the quadrature returns (h/3) * sum(w[i]*fx[i]) with h = (b-a)/(N-1),
\* w = 1 at both ends, 4 at odd interior indices, 2 at even interior indices.
C8_GridStep ==
    (calls = 1 /\ N >= 2) =>
        LET fx0 == VecPower(linspace(a, b, N), deg)
            w(j) == IF j = 0 \/ j = N - 1 THEN 1 ELSE IF j % 2 = 1 THEN 4 ELSE 2
            weighted == [i \in 1..N |-> Mul(Rat(w(i - 1), 1), fx0[i])]
        IN  result = Mul(Rat(b - a, 3 * (N - 1)), Sum(weighted))

\* C9: get_projection returns sum over k of c_k * BASE[k] with
\* c_k = integration_simpson_sampled(a, b, fx*BASE[k], N), every c_k taken
\* from the same unmodified samples fx of f, starting from the zero vector.
C9_ProjectionSum ==
    pc = "proj_return" =>
        LET sampled == Apply(f, linspace(a, b, N), BASE)
        IN  /\ fx = sampled
            /\ Len(coefs) = Len(BASE)
            /\ \A r \in 1..Len(BASE) : coefs[r] = InnerProduct(sampled, BASE[r])
            /\ projection = LinearCombination(coefs, BASE, Len(BASE))

C9_Witness ==
    /\ pc = "proj_return" /\ number_functions >= 2 /\ N >= 3
    /\ f.kind = "monomial" /\ f.arg >= 1
    /\ \A r \in 1..Len(coefs) : coefs[r].t = "fin" /\ coefs[r].n # 0

\* C10: rows are finalized in increasing degree.  While the builder runs,
\* every row not yet written holds its raw monomial, no written row is
\* modified, and the step writing row n has subtracted <x^n, e_k> e_k for
\* every k < n (coefficients against the raw monomial) before normalizing.
C10_RawAbove ==
    Building =>
        \A r \in (n + 1)..number_functions : BASE[r] = VecPower(xx, r - 1)

C10_Step ==
    /\ Building => \A r \in 1..n : BASE'[r] = BASE[r]
    /\ pc = "leg_norm" =>
          LET raw == VecPower(xx, n)
              c   == [j \in 1..n |-> InnerProduct(raw, BASE[j])]
          IN  /\ k = n
              /\ wn' = VecSub(raw, LinearCombination(c, BASE, n))
              /\ BASE'[n + 1] = VecDiv(wn', Sqrt(InnerProduct(wn', wn')))

C10_IncreasingDegree == []C10_RawAbove /\ [][C10_Step]_vars

C10_Witness ==
    /\ pc = "leg_return" /\ number_functions >= 3 /\ n = number_functions
    /\ \A r \in 1..Len(BASE) : \A i \in 1..N : BASE[r][i].t = "fin"

====
